---- MODULE Spec2Model ----
(***************************************************************************)
(* A model of function-claude's structured-document interchange: the      *)
(* serializer ComposedToYAML, the resolver ComposedFromYAML (src/fn.go)    *)
(* and the reply clean-up around them (resourceFrom,                       *)
(* extractJSONFromAgentError).                                             *)
(*                                                                         *)
(* Text is a sequence of lexemes.  The characters the code looks at one   *)
(* by one (dash, space, newline, colon, braces, quotes) are lexemes of     *)
(* their own; a word (a key, a language tag, a piece of a value) and the   *)
(* three-backtick fence are single lexemes.                                *)
(*                                                                         *)
(* A document (structpb.Struct) is a function from paths to leaves.  A     *)
(* path is a tuple of keys; a leaf is <<"s">> \o text (a string),          *)
(* <<"m">> (an empty mapping) or <<"z">> (null).                           *)
(***************************************************************************)
EXTENDS Integers, Sequences, FiniteSets, TLC

NL == "\n"
SP == " "
DASH == "-"
COLON == ":"
COMMA == ","
LBRACE == "{"
RBRACE == "}"
DQ == "\""
SQ == "'"
\* The three-backtick fence, one lexeme.
FENCE == "<fence>"

Blank == {SP, NL}

\* The document separator, as ComposedFromYAML passes it to strings.Split.
Separator == <<DASH, DASH, DASH>>

\* The path both functions address: metadata.annotations.upbound\.io/name.
AnnPath == <<"metadata", "annotations", "upbound.io/name">>

\* The keys of the modelled documents in byte order, the order in which
\* yaml.Marshal writes the keys of a mapping.
SortedKeys == <<"a", "annotations", "apiVersion", "metadata", "name", "upbound.io/name">>

----------------------------------------------------------------------------
\* Text primitives.

HasPrefix(t, p) == Len(t) >= Len(p) /\ SubSeq(t, 1, Len(p)) = p

HasSuffix(t, p) == Len(t) >= Len(p) /\ SubSeq(t, Len(t) - Len(p) + 1, Len(t)) = p

Drop(t, n) == SubSeq(t, n + 1, Len(t))

\* The least element of a set of positions, 0 when there is none.
Least(S) == IF S = {} THEN 0 ELSE CHOOSE i \in S : \A j \in S : i <= j

\* The least index at which sep occurs in t, 0 when it does not (strings.Index).
Index(t, sep) ==
    Least({i \in 1..(Len(t) - Len(sep) + 1) : SubSeq(t, i, i + Len(sep) - 1) = sep})

\* strings.Split(t, sep): the pieces between the non-overlapping occurrences
\* of sep, leftmost first; empty pieces are kept.
RECURSIVE Split(_, _)
SplitAt(t, sep, i) ==
    IF i = 0 THEN <<t>>
    ELSE <<SubSeq(t, 1, i - 1)>> \o Split(Drop(t, i + Len(sep) - 1), sep)

Split(t, sep) == SplitAt(t, sep, Index(t, sep))

\* strings.Join.
RECURSIVE Join(_, _)
Join(ts, sep) ==
    IF ts = <<>> THEN <<>>
    ELSE IF Len(ts) = 1 THEN ts[1]
    ELSE ts[1] \o sep \o Join(Tail(ts), sep)

RECURSIVE TrimLeft(_)
TrimLeft(t) == IF t # <<>> /\ t[1] \in Blank THEN TrimLeft(Tail(t)) ELSE t

RECURSIVE TrimRight(_)
TrimRight(t) ==
    IF t # <<>> /\ t[Len(t)] \in Blank THEN TrimRight(SubSeq(t, 1, Len(t) - 1)) ELSE t

\* strings.TrimSpace.
TrimSpace(t) == TrimRight(TrimLeft(t))

\* The number of spaces a line starts with.
RECURSIVE LeadingSpaces(_)
LeadingSpaces(t) == IF t # <<>> /\ t[1] = SP THEN 1 + LeadingSpaces(Tail(t)) ELSE 0

IsBlankText(t) == \A i \in 1..Len(t) : t[i] \in Blank

----------------------------------------------------------------------------
\* Documents.

Str(t) == <<"s">> \o t
EmptyMap == <<"m">>
Null == <<"z">>

IsStr(leaf) == leaf[1] = "s"

EmptyDoc == [p \in {} |-> Null]

IsPrefix(p, q) == Len(p) <= Len(q) /\ SubSeq(q, 1, Len(p)) = p

\* Function override: g's entries win.
Merge(f, g) ==
    [p \in DOMAIN f \cup DOMAIN g |-> IF p \in DOMAIN g THEN g[p] ELSE f[p]]

\* doc with leaf at path, in place of whatever stood at path, above it or
\* below it.
SetPath(doc, path, leaf) ==
    [p \in {q \in DOMAIN doc : ~IsPrefix(q, path) /\ ~IsPrefix(path, q)} \cup {path} |->
        IF p = path THEN leaf ELSE doc[p]]

\* SetBytes as it would be if it left an annotation that is already there.
SetBytesKeepsStale(doc, name) ==
    IF AnnPath \in DOMAIN doc THEN doc ELSE SetPath(doc, AnnPath, Str(name))

\* sjson.SetBytes(jocd, "metadata.annotations.upbound\\.io/name", name): the
\* document with the annotation set to name, the mappings on the way created
\* when missing.
SetBytes(doc, name) == SetPath(doc, AnnPath, Str(name))

\* GetName as it would be if it fell back on metadata.name.
GetNameOrMetadataName(doc) ==
    IF AnnPath \in DOMAIN doc /\ IsStr(doc[AnnPath]) THEN Tail(doc[AnnPath])
    ELSE IF <<"metadata", "name">> \in DOMAIN doc /\ IsStr(doc[<<"metadata", "name">>])
    THEN Tail(doc[<<"metadata", "name">>])
    ELSE <<>>

\* gjson.GetBytes(j, "metadata.annotations.upbound\\.io/name").String(): the
\* annotation's text, empty when the path is absent or null.
GetName(doc) ==
    IF AnnPath \notin DOMAIN doc THEN <<>>
    ELSE IF IsStr(doc[AnnPath]) THEN Tail(doc[AnnPath])
    ELSE IF doc[AnnPath] = EmptyMap THEN <<LBRACE, RBRACE>>
    ELSE <<>>

----------------------------------------------------------------------------
\* Encoding: yaml.JSONToYAML.

\* The keys doc holds directly under prefix.
KeysAt(doc, prefix) ==
    {q[Len(prefix) + 1] : q \in {r \in DOMAIN doc : Len(r) > Len(prefix) /\ IsPrefix(prefix, r)}}

Indent(n) == [i \in 1..(2 * n) |-> SP]

\* A plain scalar may not be empty, be a lone dash, or begin with the
\* document-start marker; the emitter quotes such strings.
NeedsQuote(t) == t = <<>> \/ t = <<DASH>> \/ HasPrefix(t, Separator)

EncodeScalar(leaf) ==
    IF leaf = EmptyMap THEN <<LBRACE, RBRACE>>
    ELSE IF leaf = Null THEN <<"null">>
    ELSE IF Tail(leaf) = <<>> THEN <<DQ, DQ>>
    ELSE IF NeedsQuote(Tail(leaf)) THEN <<SQ>> \o Tail(leaf) \o <<SQ>>
    ELSE Tail(leaf)

\* The block mapping under prefix, keys from SortedKeys[i] on.
RECURSIVE EncodeFrom(_, _, _)
EncodeKey(doc, prefix, path) ==
    IF path[Len(path)] \notin KeysAt(doc, prefix) THEN <<>>
    ELSE IF path \in DOMAIN doc
         THEN Indent(Len(prefix)) \o <<path[Len(path)], COLON, SP>>
              \o EncodeScalar(doc[path]) \o <<NL>>
         ELSE Indent(Len(prefix)) \o <<path[Len(path)], COLON, NL>>
              \o EncodeFrom(doc, path, 1)

EncodeFrom(doc, prefix, i) ==
    IF i > Len(SortedKeys) THEN <<>>
    ELSE EncodeKey(doc, prefix, Append(prefix, SortedKeys[i]))
         \o EncodeFrom(doc, prefix, i + 1)

JSONToYAML(doc) ==
    IF DOMAIN doc = {} THEN <<LBRACE, RBRACE, NL>> ELSE EncodeFrom(doc, <<>>, 1)

----------------------------------------------------------------------------
\* Decoding: yaml.YAMLToJSON.  The result is the JSON value: its kind
\* ("object", "scalar", "array" or "null") and, for an object, the document.

Indicators == {NL, SP, COLON, COMMA, LBRACE, RBRACE, DQ, SQ, FENCE}

NoValue == [ok |-> FALSE, pos |-> 0, doc |-> EmptyDoc, val |-> <<>>]

Value(pos, doc, val) == [ok |-> TRUE, pos |-> pos, doc |-> doc, val |-> val]

\* The least index from i on that holds no blank, Len(t) + 1 when none does.
RECURSIVE SkipBlank(_, _)
SkipBlank(t, i) == IF i <= Len(t) /\ t[i] \in Blank THEN SkipBlank(t, i + 1) ELSE i

\* The string that opens with the quote at t[i] and closes with the one at
\* t[j]; j = 0 when no quote closes it.
QuotedTo(t, i, j) == IF j = 0 THEN NoValue ELSE Value(j + 1, EmptyDoc, SubSeq(t, i + 1, j - 1))

\* A double-quoted string or a bare word at t[i].
FlowString(t, i) ==
    IF i > Len(t) THEN NoValue
    ELSE IF t[i] = DQ THEN QuotedTo(t, i, Least({j \in (i + 1)..Len(t) : t[j] = DQ}))
    ELSE IF t[i] \in Indicators THEN NoValue
    ELSE Value(i + 1, EmptyDoc, <<t[i]>>)

\* A flow value at t[i], stored under path: a flow mapping or a string.
RECURSIVE FlowValue(_, _, _)
RECURSIVE FlowPairs(_, _, _, _)
StringAt(s, path) == IF s.ok THEN Value(s.pos, path :> Str(s.val), s.val) ELSE NoValue

\* The flow mapping whose first lexeme after the opening brace is t[j].
MappingFrom(t, j, path) ==
    IF j <= Len(t) /\ t[j] = RBRACE
    THEN Value(j + 1, IF path = <<>> THEN EmptyDoc ELSE path :> EmptyMap, <<>>)
    ELSE FlowPairs(t, j, path, EmptyDoc)

FlowValue(t, i, path) ==
    IF i > Len(t) THEN NoValue
    ELSE IF t[i] = LBRACE THEN MappingFrom(t, SkipBlank(t, i + 1), path)
    ELSE StringAt(FlowString(t, i), path)

\* After a pair's value, whose end is at n: a comma and more pairs, or the
\* closing brace.
AfterValue(t, n, path, all) ==
    IF n > Len(t) THEN NoValue
    ELSE IF t[n] = COMMA THEN FlowPairs(t, SkipBlank(t, n + 1), path, all)
    ELSE IF t[n] = RBRACE THEN Value(n + 1, all, <<>>)
    ELSE NoValue

PairValue(t, path, acc, v) ==
    IF ~v.ok THEN NoValue ELSE AfterValue(t, SkipBlank(t, v.pos), path, Merge(acc, v.doc))

PairColon(t, path, acc, key, c) ==
    IF c > Len(t) THEN NoValue
    ELSE IF t[c] # COLON THEN NoValue
    ELSE PairValue(t, path, acc, FlowValue(t, SkipBlank(t, c + 1), Append(path, key)))

PairKey(t, path, acc, k) ==
    IF ~k.ok \/ Len(k.val) # 1 THEN NoValue
    ELSE PairColon(t, path, acc, k.val[1], SkipBlank(t, k.pos))

\* The pairs of a flow mapping from t[i] on, up to its closing brace.
FlowPairs(t, i, path, acc) == PairKey(t, path, acc, FlowString(t, i))

\* f when it is a flow value that takes all of v.
WholeValue(v, f) == IF f.ok /\ f.pos = Len(v) + 1 THEN f ELSE NoValue

\* A quoted scalar: the text between the quotes q, when it is closed.
Quoted(v, q) ==
    Len(v) >= 2 /\ v[1] = q /\ v[Len(v)] = q /\ \A i \in 2..(Len(v) - 1) : v[i] # q

\* The value v of a block mapping entry, stored under path.
ParseValue(v, path) ==
    IF v[1] = LBRACE THEN WholeValue(v, FlowValue(v, 1, path))
    ELSE IF v[1] \in {SQ, DQ}
         THEN IF Quoted(v, v[1])
              THEN Value(0, path :> Str(SubSeq(v, 2, Len(v) - 1)), <<>>)
              ELSE NoValue
    ELSE IF v[1] \in {FENCE, RBRACE, COMMA} THEN NoValue
    ELSE IF v = <<"null">> THEN Value(0, path :> Null, <<>>)
    ELSE IF v[Len(v)] = COLON \/ Index(v, <<COLON, SP>>) # 0 THEN NoValue
    ELSE Value(0, path :> Str(v), <<>>)

\* Whether r, a line without its indentation, is an entry of a block
\* mapping: a key, a colon and, after a space, an optional value.
IsEntry(r) ==
    /\ Len(r) >= 2
    /\ r[1] \notin Indicators \cup {DASH}
    /\ r[2] = COLON
    /\ Len(r) > 2 => r[3] = SP

Entry(n, r) ==
    IF IsEntry(r)
    THEN [ok |-> TRUE, indent |-> n, key |-> r[1], val |-> TrimLeft(Drop(r, 2))]
    ELSE [ok |-> FALSE, indent |-> n, key |-> "", val |-> <<>>]

Indented(l, n) == Entry(n, TrimRight(Drop(l, n)))

\* A line of a block mapping: indentation, key, colon and an optional value.
ParseLine(l) == Indented(l, LeadingSpaces(l))

NoBlock == [ok |-> FALSE, doc |-> EmptyDoc, opened |-> {}]

\* The lines ls[i..] of a block mapping whose first line is indented by base;
\* ctx is the path of the mappings still open.  The model reads the two-space
\* indentation the encoder writes.
RECURSIVE BlockLines(_, _, _, _, _)
EntryValue(ls, i, base, ctx, acc, v) ==
    IF ~v.ok THEN NoBlock
    ELSE BlockLines(ls, i + 1, base, ctx, [acc EXCEPT !.doc = Merge(@, v.doc)])

EntryAt(ls, i, base, parent, acc, path, val) ==
    IF val = <<>>
    THEN BlockLines(ls, i + 1, base, path, [acc EXCEPT !.opened = @ \cup {path}])
    ELSE EntryValue(ls, i, base, parent, acc, ParseValue(val, path))

BlockLine(ls, i, base, ctx, acc, pl, ind) ==
    IF ~pl.ok \/ ind < 0 \/ ind % 2 # 0 \/ ind \div 2 > Len(ctx) THEN NoBlock
    ELSE EntryAt(ls, i, base, SubSeq(ctx, 1, ind \div 2), acc,
                 Append(SubSeq(ctx, 1, ind \div 2), pl.key), pl.val)

BlockEntry(ls, i, base, ctx, acc, pl) ==
    BlockLine(ls, i, base, ctx, acc, pl, pl.indent - base)

BlockLines(ls, i, base, ctx, acc) ==
    IF i > Len(ls) THEN acc ELSE BlockEntry(ls, i, base, ctx, acc, ParseLine(ls[i]))

NotBlankLine(l) == ~IsBlankText(l)

YAMLError == [err |-> TRUE, kind |-> "none", doc |-> EmptyDoc]

JSONValue(kind, doc) == [err |-> FALSE, kind |-> kind, doc |-> doc]

\* A text that opens a flow mapping.
FlowDocument(body, f) ==
    IF f.ok /\ f.pos = Len(body) + 1 THEN JSONValue("object", f.doc) ELSE YAMLError

\* A text with no mapping entry: a scalar, a sequence or no YAML at all.
ScalarDocument(body, first) ==
    IF first[1] \in {FENCE, RBRACE, COMMA} THEN YAMLError
    ELSE IF first[1] \in {SQ, DQ}
         THEN IF Quoted(body, first[1]) THEN JSONValue("scalar", EmptyDoc) ELSE YAMLError
    ELSE IF HasPrefix(first, <<DASH, SP>>) \/ first = <<DASH>>
         THEN JSONValue("array", EmptyDoc)
    ELSE IF Index(body, <<COLON, SP>>) # 0 THEN YAMLError
    ELSE JSONValue("scalar", EmptyDoc)

\* The mappings that were opened and got no entry: their value is null.
Childless(doc, opened) ==
    {p \in opened : \A q \in (DOMAIN doc \cup opened) \ {p} : ~IsPrefix(p, q)}

BlockDocument(b) ==
    IF ~b.ok THEN YAMLError
    ELSE JSONValue("object", Merge([p \in Childless(b.doc, b.opened) |-> Null], b.doc))

Document(ls, body, first) ==
    IF first[1] = LBRACE THEN FlowDocument(body, FlowValue(body, 1, <<>>))
    ELSE IF \A i \in 1..Len(ls) : ~ParseLine(ls[i]).ok THEN ScalarDocument(body, first)
    ELSE BlockDocument(BlockLines(ls, 1, LeadingSpaces(ls[1]), <<>>,
                                  [NoBlock EXCEPT !.ok = TRUE]))

DocumentOf(t, ls) ==
    IF ls = <<>> THEN JSONValue("null", EmptyDoc)
    ELSE Document(ls, TrimSpace(t), TrimSpace(ls[1]))

YAMLToJSON(t) == DocumentOf(t, SelectSeq(Split(t, <<NL>>), NotBlankLine))

\* protojson.Unmarshal(j, s) into a structpb.Struct: anything but a JSON
\* object is an error.
ProtoUnmarshal(j) == j.kind = "object"

----------------------------------------------------------------------------
\* The serializer and the resolver of src/fn.go.

NoResources == [n \in {} |-> EmptyDoc]

\* What ComposedToYAML writes for the names of order, one after the other:
\* the separator line, then the document with its annotation set.
\* protojson.Marshal and sjson.SetBytes cannot fail on the modelled documents
\* (strings, mappings and nulls only), nor can yaml.JSONToYAML.
RECURSIVE WriteDocs(_, _)
WriteDocs(res, order) ==
    IF order = <<>> THEN <<>>
    ELSE Separator \o <<NL>> \o JSONToYAML(SetBytes(res[order[1]], order[1]))
         \o WriteDocs(res, Tail(order))

\* ComposedToYAML(cds), with the order in which `for name, ocd := range cds`
\* visits the map: Go leaves that order unspecified.
ComposedToYAML(res, order) == [done |-> TRUE, err |-> "", text |-> WriteDocs(res, order)]

\* The orders in which a range over a map with keys S may visit them.
Orders(S) ==
    {o \in [1..Cardinality(S) -> S] : \A i, j \in DOMAIN o : i # j => o[i] # o[j]}

Failed(msg) == [done |-> TRUE, err |-> msg, isNil |-> TRUE, out |-> NoResources]

Resolved(out) == [done |-> TRUE, err |-> "", isNil |-> FALSE, out |-> out]

\* The loop of ComposedFromYAML over the pieces docs[i..], out so far.
RECURSIVE ReadDocs(_, _, _)
\* ReadDoc as it would be if an earlier document kept its key.
\* ReadDoc as it would be if it dropped the pieces that do not decode.
ReadDocSkipsMalformed(docs, i, out, j) ==
    IF j.err \/ ~ProtoUnmarshal(j) THEN ReadDocs(docs, i + 1, out)
    ELSE ReadDocs(docs, i + 1, Merge(out, GetName(j.doc) :> j.doc))

ReadDocPartial(docs, i, out, j) ==
    IF j.err THEN [done |-> TRUE, err |-> "cannot parse YAML", isNil |-> FALSE, out |-> out]
    ELSE IF ~ProtoUnmarshal(j)
    THEN [done |-> TRUE, err |-> "cannot parse JSON", isNil |-> FALSE, out |-> out]
    ELSE ReadDocs(docs, i + 1, Merge(out, GetName(j.doc) :> j.doc))

ReadDocFirstWins(docs, i, out, j) ==
    IF j.err THEN Failed("cannot parse YAML")
    ELSE IF ~ProtoUnmarshal(j) THEN Failed("cannot parse JSON")
    ELSE ReadDocs(docs, i + 1, Merge(GetName(j.doc) :> j.doc, out))

ReadDoc(docs, i, out, j) ==
    IF j.err THEN Failed("cannot parse YAML")
    ELSE IF ~ProtoUnmarshal(j) THEN Failed("cannot parse JSON")
    ELSE ReadDocs(docs, i + 1, Merge(out, GetName(j.doc) :> j.doc))

ReadDocs(docs, i, out) ==
    IF i > Len(docs) THEN Resolved(out)
    ELSE IF docs[i] = <<>> THEN ReadDocs(docs, i + 1, out)
    ELSE ReadDoc(docs, i, out, YAMLToJSON(docs[i]))

ComposedFromYAML(y) == ReadDocs(Split(y, Separator), 1, NoResources)

----------------------------------------------------------------------------
\* The reply clean-up: resourceFrom and extractJSONFromAgentError, after
\* sections 4.4, 4.5 and 6 of the specification and the cases of
\* TestResourceFrom and TestExtractJSONFromAgentError.

\* An opening fence line: three backticks, optionally followed immediately
\* by json or yaml.
FenceOpen(l) == l \in {<<FENCE>>, <<FENCE, "json">>, <<FENCE, "yaml">>}

\* UnfenceLines as it would be if only an untagged fence opened a block.
UnfenceLinesUntagged(t, ls) ==
    IF Len(ls) >= 2 /\ ls[1] = <<FENCE>> /\ ls[Len(ls)] = <<FENCE>>
    THEN Join(SubSeq(ls, 2, Len(ls) - 1), <<NL>>)
    ELSE t

\* UnfenceLines as it would be if it did not look for the closing fence.
UnfenceLinesOpenOnly(t, ls) ==
    IF Len(ls) >= 2 /\ FenceOpen(ls[1])
    THEN Join(SubSeq(ls, 2, Len(ls) - 1), <<NL>>)
    ELSE t

UnfenceLines(t, ls) ==
    IF Len(ls) >= 2 /\ FenceOpen(ls[1]) /\ ls[Len(ls)] = <<FENCE>>
    THEN Join(SubSeq(ls, 2, Len(ls) - 1), <<NL>>)
    ELSE t

\* Unfence: text whose first line is an opening fence and whose last line is
\* a closing fence becomes the lines between them, verbatim; any other text
\* is left as it is.
Unfence(t) == UnfenceLines(t, Split(t, <<NL>>))

\* Classify: the text as one JSON object, when it is one.
WholeObject(t, f) ==
    IF f.ok /\ f.pos = Len(t) + 1
    THEN [ok |-> TRUE, doc |-> f.doc]
    ELSE [ok |-> FALSE, doc |-> EmptyDoc]

SingleObject(t) ==
    IF t # <<>> /\ t[1] = LBRACE THEN WholeObject(t, FlowValue(t, 1, <<>>))
    ELSE [ok |-> FALSE, doc |-> EmptyDoc]

Cleaned(r, cleaned) ==
    [done |-> TRUE, err |-> r.err, isNil |-> r.isNil, out |-> r.out, cleaned |-> cleaned]

Classified(cleaned, one) ==
    IF one.ok THEN Cleaned(Resolved(GetName(one.doc) :> one.doc), cleaned)
    ELSE Cleaned(ComposedFromYAML(cleaned), cleaned)

\* ResourceOf as it would be without the check for an empty text.
ResourceOfAnyText(cleaned) == Classified(cleaned, SingleObject(cleaned))

ResourceOf(cleaned) ==
    IF cleaned = <<>> THEN Cleaned(Failed("empty response"), cleaned)
    ELSE Classified(cleaned, SingleObject(cleaned))

\* resourceFrom(resp): trim, unfence, then one object or a stream.  An empty
\* text fails.  The cleaned text is returned beside the resources.
resourceFrom(resp) == ResourceOf(Unfence(TrimSpace(resp)))

\* The marker of a failure that wraps a reply, one lexeme.
Marker == "unable to parse agent output:"

ExtractAfter(msg, i) ==
    IF i = 0 THEN [done |-> TRUE, extracted |-> <<>>, ok |-> FALSE]
    ELSE [done |-> TRUE, ok |-> TRUE,
          extracted |-> TrimSpace(Unfence(TrimSpace(Drop(msg, i))))]

\* extractJSONFromAgentError as it would be if the marker had to come first.
extractJSONMarkerFirst(e) ==
    ExtractAfter(e.msg, IF e.isNil \/ ~HasPrefix(e.msg, <<Marker>>) THEN 0 ELSE 1)

\* extractJSONFromAgentError(err): the text after the marker, unfenced and
\* trimmed, and whether the marker was there.
extractJSONFromAgentError(e) ==
    ExtractAfter(e.msg, IF e.isNil THEN 0 ELSE Index(e.msg, <<Marker>>))

----------------------------------------------------------------------------
\* State.

VARIABLES
    cds,        \* the observed composed resources, name -> document
    composed,   \* what ComposedToYAML(cds) returned
    again,      \* what a second ComposedToYAML(cds) returned
    dcds,       \* what ComposedFromYAML returned for composed.text
    resp,       \* the model's reply: its text and what it was built from
    streamed,   \* what ComposedFromYAML returned for resp.text
    bare,       \* what resourceFrom returned for resp.payload
    got,        \* what resourceFrom returned for resp.text
    once,       \* Unfence of resp.text
    twice,      \* Unfence of once.text
    agentErr,   \* the error handed to extractJSONFromAgentError
    salvaged,   \* what extractJSONFromAgentError returned
    req,        \* the RunFunctionRequest
    pc,         \* where RunFunction is: "start", "calling" or "done"
    call,       \* what client.Messages.New returned
    parsed,     \* what ComposedFromYAML returned inside RunFunction
    rsp,        \* the RunFunctionResponse
    steps,      \* the stages RunFunction has entered, in order
    config,     \* the tool configuration
    valid,      \* what Config.Valid returned
    environ,    \* the environment of the process, what Environ() returns
    fromEnv,    \* what FromEnvVars returned
    servers,    \* the configurations handed to Resolve, and how each server behaves
    tools       \* what Resolve returned

vars ==
    <<cds, composed, again, dcds, resp, streamed, bare, got, once, twice, agentErr, salvaged,
      req, pc, call, parsed, rsp, steps, config, valid, environ, fromEnv,
      servers, tools>>

composeVars == <<cds, composed, again, dcds>>
resolveVars == <<resp, streamed, bare, got, once, twice>>
salvageVars == <<agentErr, salvaged>>
runVars == <<req, pc, call, parsed, rsp, steps>>
configVars == <<config, valid>>
toolVars == <<environ, fromEnv, servers, tools>>

\* Bounds.
MaxResources == 2
MaxDocs == 2

NotComposed == [done |-> FALSE, err |-> "", text |-> <<>>]
NotResolved == [done |-> FALSE, err |-> "", isNil |-> TRUE, out |-> NoResources]
NotCleaned ==
    [done |-> FALSE, err |-> "", isNil |-> TRUE, out |-> NoResources, cleaned |-> <<>>]
NotUnfenced == [done |-> FALSE, text |-> <<>>]
NotSalvaged == [done |-> FALSE, extracted |-> <<>>, ok |-> FALSE]
NoReply ==
    [text |-> <<>>, payload |-> <<>>, docs |-> <<>>, kind |-> "none", fence |-> "none",
     lead |-> <<>>, trail |-> <<>>]
NoError ==
    [isNil |-> TRUE, msg |-> <<>>, prefix |-> <<>>, marked |-> FALSE, payload |-> <<>>,
     fence |-> "none", lead |-> <<>>, trail |-> <<>>]

ComposeIdle ==
    cds = NoResources /\ composed = NotComposed /\ again = NotComposed /\ dcds = NotResolved
ResolveIdle ==
    /\ resp = NoReply /\ streamed = NotResolved /\ bare = NotCleaned /\ got = NotCleaned
    /\ once = NotUnfenced /\ twice = NotUnfenced
SalvageIdle == agentErr = NoError /\ salvaged = NotSalvaged

NoDesired == [composite |-> EmptyDoc, resources |-> NoResources]
NoRequest ==
    [tag |-> "", input |-> "none", creds |-> "absent", ignored |-> FALSE, watched |-> FALSE,
     observed |-> "none", desired |-> NoDesired]
NoCall == [status |-> "none", content |-> <<>>]
NoResponse ==
    [tag |-> "", ttl |-> 0, desired |-> NoDesired, ignored |-> FALSE, results |-> <<>>,
     conditions |-> <<>>, err |-> "none"]
NoConfig == [Transport |-> "", BaseURL |-> <<>>]
NotValidated == [done |-> FALSE, err |-> ""]

RunIdle ==
    /\ req = NoRequest /\ pc = "idle" /\ call = NoCall /\ parsed = NotResolved
    /\ rsp = NoResponse /\ steps = <<>>
ConfigIdle == config = NoConfig /\ valid = NotValidated

NoConfigs == [k \in {} |-> NoConfig]
NotRead == [done |-> FALSE, panicked |-> FALSE, cfgs |-> NoConfigs]
NotListed == [done |-> FALSE, panicked |-> FALSE, res |-> <<>>]

ToolsIdle ==
    /\ environ = <<>> /\ fromEnv = NotRead
    /\ servers = <<>> /\ tools = NotListed

----------------------------------------------------------------------------
\* Serializing the observed resources and resolving the text again
\* (RunFunction calls ComposedToYAML on req.Observed.Resources).

ObservedNames == {<<"x">>, <<"y">>, <<"x", DASH, DASH, DASH, "y">>}

ObservedDocs ==
    { EmptyDoc,
      <<"a">> :> Str(<<"b">>),
      (<<"a">> :> Str(<<"b">>)) @@ (AnnPath :> Str(<<"y">>)),
      <<"metadata", "name">> :> Str(<<"x">>),
      <<"metadata">> :> EmptyMap,
      (<<"a">> :> Str(<<"x", DASH, DASH, DASH>>)) @@ (<<"metadata", "name">> :> Str(<<"n">>)) }

ResourceSets ==
    UNION {[S -> ObservedDocs] : S \in {T \in SUBSET ObservedNames : Cardinality(T) <= MaxResources}}

InitCompose ==
    /\ cds \in ResourceSets
    /\ composed = NotComposed /\ again = NotComposed /\ dcds = NotResolved
    /\ ResolveIdle /\ SalvageIdle /\ RunIdle /\ ConfigIdle /\ ToolsIdle

\* ComposedToYAML as it would be if it set the annotation on the documents
\* of its argument.
InputAfterAnnotated(res) == [n \in DOMAIN res |-> SetBytes(res[n], n)]

\* The caller's map after ComposedToYAML(res): the annotation is set on
\* jocd, the bytes protojson.Marshal made of the document, so the documents
\* of the map are as they were.
InputAfter(res) == res

Compose ==
    /\ ~composed.done
    /\ \E order \in Orders(DOMAIN cds) : composed' = ComposedToYAML(cds, order)
    /\ cds' = InputAfter(cds)
    /\ UNCHANGED <<again, dcds, resolveVars, salvageVars, runVars, configVars, toolVars>>

ComposeAgain ==
    /\ composed.done /\ ~again.done
    /\ \E order \in Orders(DOMAIN cds) : again' = ComposedToYAML(cds, order)
    /\ cds' = InputAfter(cds)
    /\ UNCHANGED <<composed, dcds, resolveVars, salvageVars, runVars, configVars, toolVars>>

ResolveComposed ==
    /\ composed.done /\ ~dcds.done
    /\ dcds' = ComposedFromYAML(composed.text)
    /\ UNCHANGED <<cds, composed, again, resolveVars, salvageVars, runVars, configVars, toolVars>>

NextCompose == Compose \/ ComposeAgain \/ ResolveComposed

SpecCompose == InitCompose /\ [][NextCompose]_vars

----------------------------------------------------------------------------
\* Resolving the model's reply.  A reply is built from a payload, an optional
\* fence around it and optional whitespace around that; resp keeps the parts
\* beside the text.

Payload(text, kind, docs) == [text |-> text, kind |-> kind, docs |-> docs]

\* The documents a reply stream is made of.
StreamDocs ==
    { (AnnPath :> Str(<<"x">>)) @@ (<<"a">> :> Str(<<"b">>)),
      (AnnPath :> Str(<<"x">>)) @@ (<<"metadata", "name">> :> Str(<<"n">>)),
      AnnPath :> Str(<<"y">>),
      <<"a">> :> Str(<<"b">>),
      (AnnPath :> Str(<<"x">>)) @@ (<<"a">> :> Str(<<"x", DASH, DASH, DASH, "y">>)) }

\* A stream of documents, each after a separator line.
RECURSIVE ReplyStream(_)
ReplyStream(docs) ==
    IF docs = <<>> THEN <<>>
    ELSE Separator \o <<NL>> \o JSONToYAML(docs[1]) \o ReplyStream(Tail(docs))

Streams == UNION {[1..n -> StreamDocs] : n \in 1..MaxDocs}

Key(k) == <<DQ, k, DQ, COLON, SP>>

Payloads ==
    { Payload(<<>>, "empty", <<>>),
      Payload(<<LBRACE, RBRACE>>, "object", <<EmptyDoc>>),
      Payload(<<SP, LBRACE, RBRACE, NL>>, "object", <<EmptyDoc>>),
      Payload(<<"a", COLON, SP, "b">>, "mapping", <<(<<"a">> :> Str(<<"b">>))>>),
      Payload(<<"some-response">>, "scalar", <<>>),
      Payload(<<LBRACE, "a", COLON, SP>>, "truncated", <<>>),
      Payload(<<DASH, SP, "a">>, "array", <<>>),
      Payload(<<LBRACE>> \o Key("metadata") \o <<LBRACE>> \o Key("name")
              \o <<DQ, "test", DQ, RBRACE, RBRACE>>,
              "object", <<(<<"metadata", "name">> :> Str(<<"test">>))>>),
      Payload(<<"metadata", COLON, NL, SP, SP, "name", COLON, SP, "test">>,
              "mapping", <<(<<"metadata", "name">> :> Str(<<"test">>))>>),
      Payload(<<LBRACE>> \o Key("metadata") \o <<LBRACE>> \o Key("annotations")
              \o <<LBRACE>> \o Key("upbound.io/name") \o <<DQ, "x", DQ, RBRACE, RBRACE, RBRACE>>,
              "object", <<(AnnPath :> Str(<<"x">>))>>),
      Payload(<<"a", COLON, SP, "x", DASH, DASH, DASH, "y">>,
              "mapping", <<(<<"a">> :> Str(<<"x", DASH, DASH, DASH, "y">>))>>),
      Payload(<<LBRACE>> \o Key("a") \o <<DQ, "x", DASH, DASH, DASH, "y", DQ, RBRACE>>,
              "object", <<(<<"a">> :> Str(<<"x", DASH, DASH, DASH, "y">>))>>),
      Payload(<<LBRACE, RBRACE, DASH, DASH, DASH, LBRACE, RBRACE>>, "joined", <<>>),
      Payload(<<FENCE, NL, LBRACE, RBRACE, NL, FENCE>>, "fenced", <<EmptyDoc>>) }
    \cup {Payload(ReplyStream(ds), "stream", ds) : ds \in Streams}

Fences == {"none", "plain", "json", "yaml"}

FenceLine(fence) ==
    IF fence = "plain" THEN <<FENCE>> ELSE <<FENCE, fence>>

\* The payload inside a fence: an opening line, the payload, a closing line.
Wrap(text, fence) ==
    IF fence = "none" THEN text
    ELSE FenceLine(fence) \o <<NL>> \o text \o <<NL, FENCE>>

Leads == {<<>>, <<SP, SP, NL>>}
Trails == {<<>>, <<NL, SP, SP>>}

Reply(p, fence, lead, trail) ==
    [text |-> lead \o Wrap(p.text, fence) \o trail, payload |-> p.text, docs |-> p.docs,
     kind |-> p.kind, fence |-> fence, lead |-> lead, trail |-> trail]

InitResolve ==
    /\ \E p \in Payloads, fence \in Fences, lead \in Leads, trail \in Trails :
          resp = Reply(p, fence, lead, trail)
    /\ streamed = NotResolved /\ bare = NotCleaned /\ got = NotCleaned
    /\ once = NotUnfenced /\ twice = NotUnfenced
    /\ ComposeIdle /\ SalvageIdle /\ RunIdle /\ ConfigIdle /\ ToolsIdle

\* RunFunction hands the reply's text to ComposedFromYAML (fn.go:222).
ResolveStream ==
    /\ ~streamed.done
    /\ streamed' = ComposedFromYAML(resp.text)
    /\ UNCHANGED <<resp, bare, got, once, twice, composeVars, salvageVars, runVars, configVars, toolVars>>

\* resourceFrom on the payload alone.
ResolveBare ==
    /\ streamed.done /\ ~bare.done
    /\ bare' = resourceFrom(resp.payload)
    /\ UNCHANGED <<resp, streamed, got, once, twice, composeVars, salvageVars, runVars, configVars, toolVars>>

\* resourceFrom on the reply.
ResolveReply ==
    /\ bare.done /\ ~got.done
    /\ got' = resourceFrom(resp.text)
    /\ UNCHANGED <<resp, streamed, bare, once, twice, composeVars, salvageVars, runVars, configVars, toolVars>>

UnfenceReply ==
    /\ got.done /\ ~once.done
    /\ once' = [done |-> TRUE, text |-> Unfence(resp.text)]
    /\ UNCHANGED <<resp, streamed, bare, got, twice, composeVars, salvageVars, runVars, configVars, toolVars>>

UnfenceAgain ==
    /\ once.done /\ ~twice.done
    /\ twice' = [done |-> TRUE, text |-> Unfence(once.text)]
    /\ UNCHANGED <<resp, streamed, bare, got, once, composeVars, salvageVars, runVars, configVars, toolVars>>

NextResolve ==
    ResolveStream \/ ResolveBare \/ ResolveReply \/ UnfenceReply \/ UnfenceAgain

SpecResolve == InitResolve /\ [][NextResolve]_vars

----------------------------------------------------------------------------
\* Salvaging a reply from an error.  The message is a prefix, then, when
\* marked, the marker and what follows it.

Prefixes == {<<>>, <<"failed to run:", SP>>, <<"some other error">>}

SalvagePayloads ==
    { <<>>,
      <<LBRACE>> \o Key("test") \o <<"true", RBRACE>>,
      <<"apiVersion", COLON, SP, "v1">>,
      <<LBRACE>> \o Key("apiVersion") \o <<DQ, "v1", DQ, COMMA, SP>> \o Key("kind")
          \o <<DQ, "Test", DQ, RBRACE>> }

SalvageLeads == {<<>>, <<SP>>, <<SP, SP, SP, NL>>}

Message(prefix, marked, after) ==
    IF marked THEN prefix \o <<Marker>> \o after ELSE prefix \o after

AgentError(prefix, marked, payload, fence, lead, trail) ==
    [isNil |-> FALSE, msg |-> Message(prefix, marked, lead \o Wrap(payload, fence) \o trail),
     prefix |-> prefix, marked |-> marked, payload |-> payload, fence |-> fence,
     lead |-> lead, trail |-> trail]

InitSalvage ==
    /\ \/ agentErr = NoError
       \/ \E prefix \in Prefixes, marked \in BOOLEAN, payload \in SalvagePayloads,
             fence \in Fences, lead \in SalvageLeads, trail \in Trails :
             agentErr = AgentError(prefix, marked, payload, fence, lead, trail)
    /\ salvaged = NotSalvaged
    /\ ComposeIdle /\ ResolveIdle /\ RunIdle /\ ConfigIdle /\ ToolsIdle

Salvage ==
    /\ ~salvaged.done
    /\ salvaged' = extractJSONFromAgentError(agentErr)
    /\ UNCHANGED <<agentErr, composeVars, resolveVars, runVars, configVars, toolVars>>

NextSalvage == Salvage

SpecSalvage == InitSalvage /\ [][NextSalvage]_vars

(***************************************************************************)
(* RunFunction (src/fn.go).  A request carries a tag, the function input,  *)
(* the credentials, the context flag "ops.upbound.io/ignored-resource",    *)
(* whether a watched resource is among the required resources, and the     *)
(* desired state.  An error message is the tuple of the parts errors.Wrapf *)
(* joins with ": ".  The handler runs up to the call of the model in one   *)
(* step and from the call's return to its own return in another.           *)
(***************************************************************************)
DefaultTTL == 60

Result(severity, message) ==
    [severity |-> severity, message |-> message, target |-> "COMPOSITE"]

\* response.To: the tag, the desired state and the context of the request.
To(r, ttl) ==
    [tag |-> r.tag, ttl |-> ttl, desired |-> r.desired, ignored |-> r.ignored,
     results |-> <<>>, conditions |-> <<>>, err |-> "nil"]

\* response.Fatal
Fatal(r, message) == [r EXCEPT !.results = Append(@, Result("FATAL", message))]

\* The error of request.GetCredentials and of the checks that follow it.
CredentialError(r) ==
    CASE r.creds = "absent" ->
           <<"cannot get Anthropic API key from credential \"claude\"",
             "claude: credential not found">>
      [] r.creds = "env" ->
           <<"expected credential \"claude\" to be CREDENTIALS_TYPE_DATA, got CREDENTIALS_TYPE_ENV">>
      [] r.creds = "nokey" ->
           <<"credential \"claude\" is missing required key \"ANTHROPIC_API_KEY\"">>
      [] OTHER -> <<>>

\* The documents a model reply is made of.
RunDocs ==
    << (AnnPath :> Str(<<"x">>)) @@ (<<"metadata", "name">> :> Str(<<"n">>)),
       AnnPath :> Str(<<"y">>) >>

\* Pieces that do not resolve: a plain sentence and a truncated object.
Unresolvable ==
    { Separator \o <<NL, "some", DASH, "response", NL>>,
      Separator \o <<NL, LBRACE, "a", COLON, NL>> }

\* Streams of the two documents with empty segments: between two separator
\* lines, after a last separator line, after a last separator without a
\* line break.
GappedStreams ==
    { Separator \o <<NL>> \o ReplyStream(RunDocs),
      ReplyStream(<<RunDocs[1]>>) \o Separator \o <<NL>> \o ReplyStream(<<RunDocs[2]>>),
      ReplyStream(RunDocs) \o Separator \o <<NL>>,
      ReplyStream(RunDocs) \o Separator }

RunReplies ==
    {<<>>, <<"some", DASH, "response">>, ReplyStream(<<RunDocs[1]>>), ReplyStream(RunDocs)}
        \cup {ReplyStream(<<RunDocs[1]>>) \o t : t \in Unresolvable}
        \cup {t \o ReplyStream(<<RunDocs[2]>>) \o u : t, u \in Unresolvable}
        \cup GappedStreams

Text(t) == [type |-> "text", text |-> t]

ToolUse == [type |-> "tool_use", text |-> <<>>]

\* What message.Content can be.
Contents ==
    {<<>>, <<ToolUse>>, <<Text(<<>>), Text(<<>>)>>} \cup {<<Text(t)>> : t \in RunReplies}

\* What makes client.Messages.New return an error.
CallErrors == {"cancelled", "deadline", "api"}

Requests ==
    [tag : {"", "hello"}, input : {"prompt", "invalid"},
     creds : {"data", "absent", "env", "nokey"}, ignored : BOOLEAN, watched : BOOLEAN,
     observed : {"ok", "composite", "composed"},
     desired : [composite : {EmptyDoc},
                resources : {NoResources, <<"old">> :> (AnnPath :> Str(<<"old">>))}]]

InitRun ==
    /\ req \in Requests
    /\ pc = "start"
    /\ call = NoCall
    /\ parsed = NotResolved
    /\ rsp = NoResponse
    /\ steps = <<>>
    /\ ComposeIdle /\ ResolveIdle /\ SalvageIdle /\ ConfigIdle /\ ToolsIdle

\* The stages of RunFunction in the order of its code.
Stages == <<"input", "credentials", "composite", "composed", "prompt", "call", "resolve">>

\* The stages entered when the one numbered n is.
Entered(n) == SubSeq(Stages, 1, n)

\* RunFunction up to the call of the model.  req.observed says which of the
\* observed resources protojson.Marshal rejects, if any; the template is
\* parsed at construction and its execution writes three strings, so it
\* does not fail.
Start ==
    /\ pc = "start"
    /\ IF req.input = "invalid"
       THEN /\ rsp' = Fatal(To(req, DefaultTTL),
                            <<"cannot get Function input from *v1.RunFunctionRequest",
                              "cannot get function input">>)
            /\ steps' = Entered(1)
            /\ pc' = "done"
       ELSE IF req.creds # "data"
       THEN /\ rsp' = Fatal(To(req, DefaultTTL), CredentialError(req))
            /\ steps' = Entered(2)
            /\ pc' = "done"
       ELSE IF req.observed = "composite"
       THEN /\ rsp' = Fatal(To(req, DefaultTTL),
                            <<"cannot convert observed XR to YAML", "cannot convert XR to JSON">>)
            /\ steps' = Entered(3)
            /\ pc' = "done"
       ELSE IF req.observed = "composed"
       THEN /\ rsp' = Fatal(To(req, DefaultTTL),
                            <<"cannot convert observed composed resources to YAML",
                              "cannot convert composed resource to JSON">>)
            /\ steps' = Entered(4)
            /\ pc' = "done"
       ELSE /\ rsp' = To(req, DefaultTTL)
            /\ steps' = Entered(6)
            /\ pc' = "calling"
    /\ UNCHANGED <<req, call, parsed, composeVars, resolveVars, salvageVars, configVars, toolVars>>

\* CallFails as it would be if it called the model a second time.
CallFailsRetries ==
    /\ pc = "calling"
    /\ \E e \in CallErrors : call' = [status |-> e, content |-> <<>>]
    /\ IF Len(steps) < 7
       THEN /\ rsp' = rsp
            /\ steps' = Append(steps, "call")
            /\ pc' = "calling"
       ELSE /\ rsp' = Fatal(rsp, <<"cannot message Claude", call'.status>>)
            /\ steps' = steps
            /\ pc' = "done"
    /\ UNCHANGED <<req, parsed, composeVars, resolveVars, salvageVars, configVars, toolVars>>

CallFailsSilently ==
    /\ pc = "calling"
    /\ \E e \in CallErrors : call' = [status |-> e, content |-> <<>>]
    /\ rsp' = rsp
    /\ pc' = "done"
    /\ UNCHANGED <<req, parsed, steps, composeVars, resolveVars, salvageVars, configVars, toolVars>>

\* client.Messages.New returns an error: the context was cancelled, its
\* deadline passed, or the API failed.
CallFails ==
    /\ pc = "calling"
    /\ \E e \in CallErrors : call' = [status |-> e, content |-> <<>>]
    /\ rsp' = Fatal(rsp, <<"cannot message Claude", call'.status>>)
    /\ pc' = "done"
    /\ UNCHANGED <<req, parsed, steps, composeVars, resolveVars, salvageVars, configVars, toolVars>>

\* RunFunction from a returned message to its end; d is what ComposedFromYAML
\* makes of the text.
\* Finish as it would be if it took the first block of the message whatever
\* the number and the types of the blocks.
FinishFirstBlock(content, d) ==
    IF Len(content) = 0
    THEN /\ rsp' = Fatal(rsp, <<"expected 1 response", "got other">>)
         /\ parsed' = parsed
         /\ steps' = steps
    ELSE /\ parsed' = ComposedFromYAML(content[1].text)
         /\ steps' = Append(steps, "resolve")
         /\ rsp' = IF parsed'.err # ""
                   THEN Fatal(rsp, <<"cannot parse Claude output as YAML", parsed'.err>>)
                   ELSE [rsp EXCEPT !.desired.resources = parsed'.out]

FinishKeepsDesired(content, d) ==
    IF Len(content) # 1
    THEN /\ rsp' = Fatal(rsp, <<"expected 1 response", "got other">>)
         /\ parsed' = parsed
         /\ steps' = steps
    ELSE IF content[1].type # "text"
    THEN /\ rsp' = Fatal(rsp, <<"expected text response", content[1].type>>)
         /\ parsed' = parsed
         /\ steps' = steps
    ELSE /\ parsed' = d
         /\ steps' = Append(steps, "resolve")
         /\ rsp' = IF d.err # ""
                   THEN Fatal(rsp, <<"cannot parse Claude output as YAML", d.err>>)
                   ELSE [rsp EXCEPT !.desired.resources = Merge(d.out, @)]

Finish(content, d) ==
    IF Len(content) # 1
    THEN /\ rsp' = Fatal(rsp, <<"expected 1 response", "got other">>)
         /\ parsed' = parsed
         /\ steps' = steps
    ELSE IF content[1].type # "text"
    THEN /\ rsp' = Fatal(rsp, <<"expected text response", content[1].type>>)
         /\ parsed' = parsed
         /\ steps' = steps
    ELSE /\ parsed' = d
         /\ steps' = Append(steps, "resolve")
         /\ rsp' = IF d.err # ""
                   THEN Fatal(rsp, <<"cannot parse Claude output as YAML", d.err>>)
                   ELSE [rsp EXCEPT !.desired.resources = d.out]

TextOf(content) == IF Len(content) = 1 THEN content[1].text ELSE <<>>

\* client.Messages.New returns a message.
CallReturns ==
    /\ pc = "calling"
    /\ \E content \in Contents :
          /\ call' = [status |-> "ok", content |-> content]
          /\ Finish(content, ComposedFromYAML(TextOf(content)))
    /\ pc' = "done"
    /\ UNCHANGED <<req, composeVars, resolveVars, salvageVars, configVars, toolVars>>

NextRun == Start \/ CallFails \/ CallReturns

SpecRun == InitRun /\ [][NextRun]_vars

(***************************************************************************)
(* The tool configuration (package tool).  A base URL is a text; a         *)
(* transport is a word.                                                    *)
(***************************************************************************)
SSE == "sse"

StreamableHTTP == "http-stream"

ValidAnyBaseURL(c) ==
    IF c.Transport \in {SSE, StreamableHTTP} THEN ""
    ELSE "invalid mcp config: transport must be one of 'sse' or 'http-stream"

\* Config.Valid: the message of the error it returns, "" for nil.
Valid(c) ==
    IF Len(c.BaseURL) = 0 THEN "invalid mcp config: baseURL required"
    ELSE IF c.Transport \in {SSE, StreamableHTTP} THEN ""
    ELSE "invalid mcp config: transport must be one of 'sse' or 'http-stream"

Transports == {"", "sse", "http-stream", "stdio", "SSE", "http", "sse ", "http-stream,sse"}

BaseURLs ==
    { <<>>, <<"http://localhost/sse">>, <<"http://localhost/mcp">>, <<".", "/", "local">>,
      <<SP>>, <<NL>>, <<"sse">>, <<"http://localhost", "/", "mcp">> }

Configs == [Transport : Transports, BaseURL : BaseURLs]

InitConfig ==
    /\ config \in Configs
    /\ valid = NotValidated
    /\ ComposeIdle /\ ResolveIdle /\ SalvageIdle /\ RunIdle /\ ToolsIdle

Validate ==
    /\ ~valid.done
    /\ valid' = [done |-> TRUE, err |-> Valid(config)]
    /\ UNCHANGED <<config, composeVars, resolveVars, salvageVars, runVars, toolVars>>

NextConfig == Validate

SpecConfig == InitConfig /\ [][NextConfig]_vars

(***************************************************************************)
(* Configurations from the environment (package tool, Resolver).  An       *)
(* entry of the environment is a text; the prefix MCP_SERVER_TOOL_, the    *)
(* underscore and the equals sign are lexemes of their own, the words      *)
(* between them are single lexemes.                                        *)
(***************************************************************************)
EnvPrefix == "MCP_SERVER_TOOL_"

US == "_"

EQ == "="

\* strings.ToLower, on a lexeme and on a text.
ToLowerWord(w) ==
    CASE w = "A" -> "a"
      [] w = "B" -> "b"
      [] w = "X" -> "x"
      [] w = "TRANSPORT" -> "transport"
      [] w = "BASEURL" -> "baseurl"
      [] w = "SSE" -> "sse"
      [] w = "http://Localhost/mcp" -> "http://localhost/mcp"
      [] w = EnvPrefix -> "mcp_server_tool_"
      [] OTHER -> w

ToLower(t) == [i \in DOMAIN t |-> ToLowerWord(t[i])]

\* The string a text spells.
RECURSIVE Concat(_)
Concat(t) == IF t = <<>> THEN "" ELSE Head(t) \o Concat(Tail(t))

\* The last place of the lexeme c in t, 0 when there is none.
LastIndex(t, c) ==
    IF \E i \in DOMAIN t : t[i] = c
    THEN CHOOSE i \in DOMAIN t : t[i] = c /\ \A j \in DOMAIN t : t[j] = c => j <= i
    ELSE 0

\* re.FindStringSubmatch(e) for MCP_SERVER_TOOL_(?P<key>.*)_(?P<type>.*) on
\* an entry that starts with the prefix: the key runs up to the last
\* underscore, the type is what follows it; nil without an underscore after
\* the prefix.
Submatch(e, u) ==
    IF u = 0 THEN [isNil |-> TRUE, key |-> <<>>, type |-> <<>>]
    ELSE [isNil |-> FALSE, key |-> SubSeq(e, 2, u), type |-> SubSeq(e, u + 2, Len(e))]

FindStringSubmatch(e) == Submatch(e, LastIndex(Tail(e), US))

Parsed(k, cfg) == [panicked |-> FALSE, key |-> k, cfg |-> cfg]

\* An index out of range.
Panic == [panicked |-> TRUE, key |-> <<>>, cfg |-> NoConfig]

\* parse from the split of the type on: vtype[0] chooses the field, vtype[1]
\* is its value.
ParseType(k, vtype) ==
    IF vtype[1] = <<"transport">>
    THEN IF Len(vtype) < 2 THEN Panic
         ELSE Parsed(k, [NoConfig EXCEPT !.Transport = Concat(vtype[2])])
    ELSE IF vtype[1] = <<"baseurl">>
    THEN IF Len(vtype) < 2 THEN Panic
         ELSE Parsed(k, [NoConfig EXCEPT !.BaseURL = vtype[2]])
    ELSE Parsed(k, NoConfig)

\* parse from the match on: matches[i] of a nil match is out of range.
ParseMatch(m) ==
    IF m.isNil THEN Panic
    ELSE ParseType(ToLower(m.key), Split(ToLower(m.type), <<EQ>>))

parse(e) == ParseMatch(FindStringSubmatch(e))

mergeLastWins(current, new) ==
    [Transport |-> IF new.Transport # "" THEN new.Transport ELSE current.Transport,
     BaseURL |-> IF new.BaseURL # <<>> THEN new.BaseURL ELSE current.BaseURL]

merge(current, new) ==
    [Transport |-> IF current.Transport = "" /\ new.Transport # ""
                   THEN new.Transport ELSE current.Transport,
     BaseURL |-> IF current.BaseURL = <<>> /\ new.BaseURL # <<>>
                 THEN new.BaseURL ELSE current.BaseURL]

\* cfgs[k] of a Go map: the zero Config when k is not in it.
At(cfgs, k) == IF k \in DOMAIN cfgs THEN cfgs[k] ELSE NoConfig

DeleteNone(cfgs) == cfgs

\* The second loop of FromEnvVars: the entries whose Config is not valid
\* are deleted.
DeleteInvalid(cfgs) == [k \in {j \in DOMAIN cfgs : Valid(cfgs[j]) = ""} |-> cfgs[k]]

\* The first loop of FromEnvVars from entry i on, then the second.
RECURSIVE ReadEnv(_, _, _)
MergeEntry(env, i, cfgs, p) ==
    IF p.panicked THEN [done |-> TRUE, panicked |-> TRUE, cfgs |-> NoConfigs]
    ELSE ReadEnv(env, i + 1, (p.key :> merge(At(cfgs, p.key), p.cfg)) @@ cfgs)

ReadEnv(env, i, cfgs) ==
    IF i > Len(env) THEN [done |-> TRUE, panicked |-> FALSE, cfgs |-> DeleteInvalid(cfgs)]
    ELSE IF ~HasPrefix(env[i], <<EnvPrefix>>) THEN ReadEnv(env, i + 1, cfgs)
    ELSE MergeEntry(env, i, cfgs, parse(env[i]))

FromEnvVars(env) == ReadEnv(env, 1, NoConfigs)

MaxEnv == 3

\* The entries an environment is made of.
Entries ==
    { <<EnvPrefix, "A", US, "TRANSPORT", EQ, "SSE">>,
      <<EnvPrefix, "A", US, "TRANSPORT", EQ, "http-stream">>,
      <<EnvPrefix, "A", US, "BASEURL", EQ, "http://localhost/sse">>,
      <<EnvPrefix, "A", US, "BASEURL", EQ, "http://Localhost/mcp">>,
      <<EnvPrefix, "B", US, "TRANSPORT", EQ, "stdio">>,
      <<EnvPrefix, "B", US, "BASEURL", EQ, "http://my", US, "host/sse">>,
      <<EnvPrefix, "X", EQ, "1">>,
      <<EnvPrefix, "A", US, "TRANSPORT">>,
      <<"PATH", EQ, "/bin">>,
      <<"MY", US, EnvPrefix, "B", US, "BASEURL", EQ, "http://localhost/sse">> }

Environs == UNION {[1..n -> Entries] : n \in 0..MaxEnv}

InitEnv ==
    /\ environ \in Environs
    /\ fromEnv = NotRead
    /\ servers = <<>> /\ tools = NotListed
    /\ ComposeIdle /\ ResolveIdle /\ SalvageIdle /\ RunIdle /\ ConfigIdle

\* r.FromEnvVars()
ReadEnvVars ==
    /\ ~fromEnv.done
    /\ fromEnv' = FromEnvVars(environ)
    /\ UNCHANGED <<environ, servers, tools, composeVars, resolveVars, salvageVars, runVars,
                   configVars>>

NextEnv == ReadEnvVars

SpecEnv == InitEnv /\ [][NextEnv]_vars

(***************************************************************************)
(* Resolver.Resolve.  A server is its Config, the step at which it fails   *)
(* ("create", "start", "adapter", "list" or "none") and the tools it       *)
(* offers.  Resolve is handed Configs that FromEnvVars returned, which are *)
(* valid.                                                                  *)
(***************************************************************************)
MaxServers == 2

MaxTools == 2

ServerKeys == {<<"a">>, <<"b">>, <<"c">>}

\* The tools of the server k, n of them.
ToolsOf(k, n) == [i \in 1..n |-> <<k, i>>]

Server(k) ==
    [cfg : [Transport : {SSE, StreamableHTTP}, BaseURL : {<<"http://localhost/mcp">>}],
     fails : {"none", "create", "start", "adapter", "list"},
     tools : {ToolsOf(k, n) : n \in 0..MaxTools}]

ServerMaps ==
    UNION { {f \in [S -> UNION {Server(k) : k \in S}] : \A k \in S : f[k] \in Server(k)} :
            S \in {T \in SUBSET ServerKeys : Cardinality(T) <= MaxServers} }

\* One pass of the loop of Resolve: what the server v adds to res.  With a
\* transport that is neither SSE nor StreamableHTTP no client is made, mc
\* stays nil and mc.Start is called on it.
Added(v) ==
    IF v.cfg.Transport \notin {SSE, StreamableHTTP} THEN [panicked |-> TRUE, tools |-> <<>>]
    ELSE IF v.fails = "create" THEN [panicked |-> FALSE, tools |-> <<>>]
    ELSE IF v.fails = "start" THEN [panicked |-> FALSE, tools |-> <<>>]
    ELSE IF v.fails = "adapter" THEN [panicked |-> FALSE, tools |-> <<>>]
    ELSE IF v.fails = "list" THEN [panicked |-> FALSE, tools |-> <<>>]
    ELSE [panicked |-> FALSE, tools |-> v.tools]

RECURSIVE ResolveFrom(_, _, _)
\* The loop of Resolve as it would be if a failing server ended it.
NextServerStops(srv, order, res, a) ==
    IF a.panicked THEN [done |-> TRUE, panicked |-> TRUE, res |-> <<>>]
    ELSE IF srv[Head(order)].fails # "none" THEN [done |-> TRUE, panicked |-> FALSE, res |-> res]
    ELSE ResolveFrom(srv, Tail(order), res \o a.tools)

NextServer(srv, order, res, a) ==
    IF a.panicked THEN [done |-> TRUE, panicked |-> TRUE, res |-> <<>>]
    ELSE ResolveFrom(srv, Tail(order), res \o a.tools)

ResolveFrom(srv, order, res) ==
    IF order = <<>> THEN [done |-> TRUE, panicked |-> FALSE, res |-> res]
    ELSE NextServer(srv, order, res, Added(srv[Head(order)]))

\* Resolve(ctx, cfgs), with the order in which `for _, v := range cfgs`
\* visits the map.
Resolve(srv, order) == ResolveFrom(srv, order, <<>>)

InitTools ==
    /\ servers \in ServerMaps
    /\ tools = NotListed
    /\ environ = <<>> /\ fromEnv = NotRead
    /\ ComposeIdle /\ ResolveIdle /\ SalvageIdle /\ RunIdle /\ ConfigIdle

ResolveTools ==
    /\ ~tools.done
    /\ \E order \in Orders(DOMAIN servers) : tools' = Resolve(servers, order)
    /\ UNCHANGED <<environ, fromEnv, servers, composeVars, resolveVars, salvageVars, runVars,
                   configVars>>

NextTools == ResolveTools

SpecTools == InitTools /\ [][NextTools]_vars

----------------------------------------------------------------------------
\* Properties of the serializer (SpecCompose).

\* The document with its annotation set to name, stated leaf by leaf: the
\* annotation, and every leaf of doc that is neither on the annotation's path
\* nor under it.
Annotated(doc, name) ==
    [p \in {q \in DOMAIN doc : ~IsPrefix(q, AnnPath) /\ ~IsPrefix(AnnPath, q)} \cup {AnnPath} |->
        IF p = AnnPath THEN Str(name) ELSE doc[p]]

\* C1. Round trip: for every set of resources with unique, non-empty names,
\* ComposedFromYAML of the text ComposedToYAML wrote succeeds and returns the
\* same names, each with its document and the annotation set to the name.
C1_RoundTrip ==
    dcds.done =>
        /\ dcds.err = "" /\ ~dcds.isNil
        /\ DOMAIN dcds.out = DOMAIN cds
        /\ \A n \in DOMAIN cds : dcds.out[n] = Annotated(cds[n], n)

\* C2. Determinism: two calls of ComposedToYAML on the same set of resources
\* write the same text.
C2_Deterministic == composed.done /\ again.done => composed.text = again.text

\* The lines of the written text that are separator lines.
SepLines(ls) == {i \in 1..Len(ls) : ls[i] = Separator}

\* The document written after the separator line i: the lines up to the next
\* separator line, decoded.
DocAfter(ls, i) ==
    LET later == {k \in SepLines(ls) : k > i}
        stop == IF later = {} THEN Len(ls) + 1 ELSE Least(later)
    IN  YAMLToJSON(Join(SubSeq(ls, i + 1, stop - 1), <<NL>>))

\* Every leaf of orig off the annotation's path is in doc, unchanged.
Keeps(orig, doc) ==
    \A p \in DOMAIN orig :
        (~IsPrefix(p, AnnPath) /\ ~IsPrefix(AnnPath, p)) => p \in DOMAIN doc /\ doc[p] = orig[p]

\* C10. Self-identifying output: ComposedToYAML writes one document per
\* resource, and each written document carries at
\* metadata.annotations["upbound.io/name"] the name it is stored under,
\* whatever stood there before and whether or not metadata and annotations
\* were there; the rest of the document is kept.
C10_SelfIdentifying ==
    composed.done =>
        LET ls == Split(composed.text, <<NL>>)
            written == [i \in SepLines(ls) |-> DocAfter(ls, i)]
        IN  /\ composed.err = ""
            /\ Cardinality(SepLines(ls)) = Cardinality(DOMAIN cds)
            /\ \A i \in SepLines(ls) :
                  /\ ~written[i].err /\ written[i].kind = "object"
                  /\ AnnPath \in DOMAIN written[i].doc
                  /\ IsStr(written[i].doc[AnnPath])
                  /\ Tail(written[i].doc[AnnPath]) \in DOMAIN cds
                  /\ Keeps(cds[Tail(written[i].doc[AnnPath])], written[i].doc)
            /\ {Tail(written[i].doc[AnnPath]) : i \in SepLines(ls)} = DOMAIN cds

\* A set with a stale annotation and a document without metadata has been
\* written, and the text names both resources.
C10_Witness ==
    /\ composed.done
    /\ \E n, m \in DOMAIN cds :
          /\ AnnPath \in DOMAIN cds[n] /\ cds[n][AnnPath] # Str(n)
          /\ \A p \in DOMAIN cds[m] : p[1] # "metadata"
          /\ Index(composed.text, <<"upbound.io/name", COLON, SP>> \o n \o <<NL>>) # 0
          /\ Index(composed.text, <<"upbound.io/name", COLON, SP>> \o m \o <<NL>>) # 0

----------------------------------------------------------------------------
\* Properties of the resolver (SpecResolve).

NotEmptyText(t) == t # <<>>

\* The documents the resolver decodes from a stream: its non-empty segments,
\* in order.
Decoded(text) ==
    LET segs == SelectSeq(Split(text, Separator), NotEmptyText)
    IN  [i \in 1..Len(segs) |-> YAMLToJSON(segs[i]).doc]

C4_LastWriterWins ==
    streamed.done /\ streamed.err = "" =>
        LET ds == Decoded(resp.text)
            names == {GetName(ds[i]) : i \in 1..Len(ds)}
        IN  /\ ~streamed.isNil
            /\ DOMAIN streamed.out = names
            /\ Cardinality(DOMAIN streamed.out) = Cardinality(names)
            /\ \A i \in 1..Len(ds) :
                  (\A k \in (i + 1)..Len(ds) : GetName(ds[k]) # GetName(ds[i]))
                      => streamed.out[GetName(ds[i])] = ds[i]

\* A stream of two different documents named x has resolved to the one entry
\* x, the second document.
C4_Witness ==
    /\ streamed.done /\ streamed.err = ""
    /\ resp.kind = "stream" /\ resp.fence = "none" /\ Len(resp.docs) = 2
    /\ GetName(resp.docs[1]) = <<"x">> /\ GetName(resp.docs[2]) = <<"x">>
    /\ resp.docs[1] # resp.docs[2]
    /\ DOMAIN streamed.out = {<<"x">>}
    /\ streamed.out[<<"x">>] = resp.docs[2]

\* C5. A reply that is exactly one object, a JSON object or a YAML mapping
\* without a separator line, resolves without error to one entry: the
\* document, under its annotation or under the empty name.
C5_SingleObject ==
    got.done /\ resp.fence = "none" /\ resp.kind \in {"object", "mapping"} =>
        /\ got.err = "" /\ ~got.isNil
        /\ DOMAIN got.out = {GetName(resp.docs[1])}
        /\ got.out[GetName(resp.docs[1])] = resp.docs[1]

\* C6. A reply that is neither an object nor a YAML mapping nor a stream of
\* them (a bare scalar, a truncated object, a sequence, two objects run
\* together) resolves to an error and no resources.
C6_InvalidReplyFails ==
    got.done /\ resp.fence = "none"
             /\ resp.kind \in {"scalar", "truncated", "array", "joined"} =>
        got.err # "" /\ got.isNil /\ got.out = NoResources

TextWrapped ==
    /\ resp.lead = <<>> /\ resp.trail = <<>>
    /\ resp.fence # "none" \/ resp.kind = "fenced"

\* The text inside the reply's fence is again a fenced block.
InteriorWrapped == TextWrapped /\ resp.fence # "none" /\ resp.kind = "fenced"

----------------------------------------------------------------------------
\* Properties of the salvage (SpecSalvage).

\* C9. For an error whose message holds the marker, at its start or behind a
\* prefix, extractJSONFromAgentError returns what follows the marker, without
\* the fence and its tag and without the whitespace around it, and true; for
\* no error or a message without the marker it returns the empty text and
\* false.
C9_Salvage ==
    salvaged.done =>
        IF agentErr.isNil \/ ~agentErr.marked
        THEN salvaged.extracted = <<>> /\ ~salvaged.ok
        ELSE salvaged.ok /\ salvaged.extracted = agentErr.payload

\* A reply in a json fence has been salvaged from behind a prefix and
\* whitespace.
C9_Witness ==
    /\ salvaged.done /\ ~agentErr.isNil /\ agentErr.marked
    /\ agentErr.prefix # <<>> /\ agentErr.fence = "json"
    /\ agentErr.lead # <<>> /\ agentErr.trail # <<>>
    /\ agentErr.payload # <<>>
    /\ salvaged.ok /\ salvaged.extracted = agentErr.payload

(***************************************************************************)
(* RunFunction                                                             *)
(***************************************************************************)
\* The text of the single text block the model returned, <<>> otherwise.
ReplyText == TextOf(call.content)

\* The reply starts with a document that resolves and goes on with a piece
\* that does not.
PartlyResolvable ==
    \E t \in Unresolvable :
        /\ ReplyText = ReplyStream(<<RunDocs[1]>>) \o t
        /\ ComposedFromYAML(ReplyStream(<<RunDocs[1]>>)).err = ""

\* C11: when the resolver fails it returns the nil set, also when pieces
\* before the failing one had resolved, and RunFunction leaves the desired
\* resources of the response as they were in the request.
C11_NoPartialResult ==
    parsed.done /\ parsed.err # ""
        => /\ parsed.isNil
           /\ parsed.out = NoResources
           /\ rsp.desired = req.desired
           /\ rsp.results = <<Result("FATAL", <<"cannot parse Claude output as YAML", parsed.err>>)>>

C11_Witness ==
    /\ pc = "done"
    /\ parsed.done /\ parsed.err # ""
    /\ PartlyResolvable
    /\ req.desired.resources # NoResources

\* C12: when the call of the model fails, a cancelled context and a passed
\* deadline included, the invocation ends with the one fatal result that
\* reports it; the resolver is never run and the desired state stays the
\* request's.
C12_ModelCallFailure ==
    call.status \in CallErrors
        => /\ pc = "done"
           /\ rsp.err = "nil"
           /\ rsp.results = <<Result("FATAL", <<"cannot message Claude", call.status>>)>>
           /\ ~parsed.done
           /\ rsp.desired = req.desired

C12_Witness ==
    /\ pc = "done"
    /\ call.status = "cancelled"
    /\ req.desired.resources # NoResources
    /\ Len(rsp.results) = 1

\* C13: a request without the credential "claude" gets a nil error and a
\* response with the request's tag, the default TTL and the single fatal
\* result `cannot get ANTHROPIC_API_KEY from credential "claude": claude:
\* credential not found`; the model is not called and the desired state
\* stays the request's.
C13_MissingCredential ==
    pc = "done" /\ req.input = "prompt" /\ req.creds = "absent" /\ ~req.ignored
        => /\ rsp.err = "nil"
           /\ rsp.tag = req.tag
           /\ rsp.ttl = 60
           /\ rsp.results =
                <<Result("FATAL",
                         <<"cannot get ANTHROPIC_API_KEY from credential \"claude\"",
                           "claude: credential not found">>)>>
           /\ call = NoCall
           /\ rsp.desired = req.desired

\* The condition a successful invocation sets.
FunctionSuccess == [type |-> "FunctionSuccess", status |-> "TRUE", reason |-> "Success"]

\* C14: a request whose context flags an ignored resource returns at once,
\* whatever its input and credentials are and without calling the model:
\* the response echoes the context and has the one normal result "received
\* an ignored resource, skipping", the FunctionSuccess condition, a TTL of
\* 60 seconds and the desired state of the request.
C14_IgnoredResource ==
    req.ignored /\ pc # "start"
        => /\ pc = "done"
           /\ call = NoCall
           /\ rsp.err = "nil"
           /\ rsp.ignored = req.ignored
           /\ rsp.results = <<Result("NORMAL", <<"received an ignored resource, skipping">>)>>
           /\ rsp.conditions = <<FunctionSuccess>>
           /\ rsp.ttl = 60
           /\ rsp.desired = req.desired

\* C15: with a watched resource among the required resources the reply of
\* the model is returned as it is, as the message of the one normal result,
\* with the FunctionSuccess condition; it is not resolved, so a reply that
\* is no resource stream neither fails the invocation nor sets desired
\* resources.
C15_OperationPipeline ==
    (/\ pc = "done" /\ req.watched /\ ~req.ignored
     /\ call.status = "ok" /\ Len(call.content) = 1 /\ call.content[1].type = "text")
        => /\ rsp.results = <<Result("NORMAL", call.content[1].text)>>
           /\ rsp.conditions = <<FunctionSuccess>>
           /\ ~parsed.done
           /\ rsp.desired = req.desired

\* The set a stream of the documents docs resolves to: each document under
\* its identifier.
KeyedByName(docs) ==
    [n \in {GetName(docs[i]) : i \in DOMAIN docs} |->
        docs[CHOOSE i \in DOMAIN docs : GetName(docs[i]) = n]]

\* C16: with valid credentials and a reply that resolves, the desired
\* resources of the response are exactly the resolved set, each document
\* under its identifier; the desired composite and the tag are the
\* request's, and there is no fatal result.
C16_CompositionSuccess ==
    (/\ pc = "done" /\ ~req.watched /\ ~req.ignored
     /\ call.status = "ok" /\ parsed.done /\ parsed.err = "")
        => /\ rsp.desired.resources = parsed.out
           /\ \A n \in DOMAIN RunDocs :
                ReplyText = ReplyStream(SubSeq(RunDocs, 1, n))
                    => rsp.desired.resources = KeyedByName(SubSeq(RunDocs, 1, n))
           /\ rsp.desired.composite = req.desired.composite
           /\ rsp.tag = req.tag
           /\ rsp.results = <<>>
           /\ rsp.err = "nil"

C16_Witness ==
    /\ pc = "done" /\ ~req.watched /\ ~req.ignored /\ req.creds = "data"
    /\ ReplyText = ReplyStream(RunDocs)
    /\ parsed.done /\ parsed.err = ""
    /\ DOMAIN rsp.desired.resources = {<<"x">>, <<"y">>}
    /\ req.desired.resources # NoResources
    /\ req.tag = "hello"

(***************************************************************************)
(* The tool configuration                                                  *)
(***************************************************************************)
\* C17: Config.Valid returns nil exactly when the base URL is not empty and
\* the transport is sse or http-stream; every other configuration gets an
\* error.
C17_Valid ==
    valid.done
        => (valid.err = ""
              <=> config.BaseURL # <<>> /\ config.Transport \in {"sse", "http-stream"})

C17_Witness ==
    /\ valid.done
    /\ valid.err = ""
    /\ config.Transport = "http-stream"
    /\ config.BaseURL = <<"http://localhost/mcp">>

(***************************************************************************)
(* The key of a resolved document                                          *)
(***************************************************************************)
\* The document {"metadata": {"name": "test"}}.
NamedTest == <<"metadata", "name">> :> Str(<<"test">>)

\* C18: a reply that is one document with metadata.name N and without the
\* annotation resolves to one entry under N: resourceFrom of
\* {"metadata": {"name": "test"}}, in a fence or not, returns exactly one
\* entry, under test.
C18_KeyedByMetadataName ==
    got.done /\ resp.docs = <<NamedTest>> /\ resp.kind \in {"object", "mapping"}
        => /\ got.err = ""
           /\ got.out = (<<"test">> :> NamedTest)

Byte(c) == CASE c = DASH -> 45 [] c = "x" -> 120 [] c = "y" -> 121

\* a < b as Go compares strings: byte by byte, a proper prefix first.
RECURSIVE Less(_, _)
Less(a, b) ==
    IF b = <<>> THEN FALSE
    ELSE IF a = <<>> THEN TRUE
    ELSE IF Head(a) # Head(b) THEN Byte(Head(a)) < Byte(Head(b))
    ELSE Less(Tail(a), Tail(b))

\* The first place in t where the annotation line of name stands.
WrittenAt(t, name) ==
    Index(t, <<"upbound.io/name", COLON, SP>> \o EncodeScalar(Str(name)) \o <<NL>>)

\* C20: ComposedToYAML writes the documents in ascending order of their
\* names: for names a < b of the set, the document of a stands in the text
\* before the document of b, whatever order the map is visited in.
C20_SortedOutput ==
    composed.done
        => \A a, b \in DOMAIN cds :
             Less(a, b) => WrittenAt(composed.text, a) < WrittenAt(composed.text, b)

(***************************************************************************)
(* Pieces of a reply                                                       *)
(***************************************************************************)
\* The pieces the resolver decodes: the non-empty texts between the
\* separators, in order.
RECURSIVE NonEmpty(_)
NonEmpty(ps) ==
    IF ps = <<>> THEN <<>>
    ELSE IF Head(ps) = <<>> THEN NonEmpty(Tail(ps))
    ELSE <<Head(ps)>> \o NonEmpty(Tail(ps))

Pieces(t) == NonEmpty(Split(t, Separator))

\* How the decoding of the piece p ends: "" when it decodes to an object.
DecodeError(p) ==
    IF YAMLToJSON(p).err THEN "cannot parse YAML"
    ELSE IF YAMLToJSON(p).kind # "object" THEN "cannot parse JSON"
    ELSE ""

Undecoded(ps) == {i \in DOMAIN ps : DecodeError(ps[i]) # ""}

\* C21 as stated: a reply with a piece that decodes resolves, to the
\* entries of the pieces that decode, and the pieces that do not are
\* dropped; resolving fails only when the text is not empty and no piece
\* decodes.
C21_PartialDecode ==
    parsed.done
        => LET ps == Pieces(ReplyText)
               good == DOMAIN ps \ Undecoded(ps)
           IN  /\ good # {} => parsed.err = ""
               /\ parsed.err = ""
                    => DOMAIN parsed.out = {GetName(YAMLToJSON(ps[i]).doc) : i \in good}
               /\ parsed.err # "" => ps # <<>> /\ good = {}

\* C21 as the code has it: resolving is all or nothing.  It succeeds when
\* every piece decodes; at the first piece that does not it fails with that
\* piece's error and returns nothing, whatever decoded before or would
\* decode after.
C21_AllOrNothing ==
    parsed.done
        => LET ps == Pieces(ReplyText)
               bad == Undecoded(ps)
           IN  IF bad = {}
               THEN /\ parsed.err = "" /\ ~parsed.isNil
                    /\ DOMAIN parsed.out = {GetName(YAMLToJSON(ps[i]).doc) : i \in DOMAIN ps}
               ELSE /\ parsed.err = DecodeError(ps[Least(bad)])
                    /\ parsed.isNil /\ parsed.out = NoResources

\* A reply of three pieces has been resolved: the first fails as YAML, the
\* second decodes and the third is no object.
C21_Witness ==
    /\ parsed.done
    /\ Len(Pieces(ReplyText)) = 3
    /\ DecodeError(Pieces(ReplyText)[1]) = "cannot parse YAML"
    /\ DecodeError(Pieces(ReplyText)[2]) = ""
    /\ DecodeError(Pieces(ReplyText)[3]) = "cannot parse JSON"
    /\ parsed.err = "cannot parse YAML"

\* The document holds a string with three dashes in a row.
HoldsDashes(doc) ==
    \E q \in DOMAIN doc : IsStr(doc[q]) /\ Index(Tail(doc[q]), Separator) # 0

\* C22: the resolver cuts a reply at lines that are exactly ---, not at
\* three dashes inside a line: a document with a string such as x---y
\* resolves to one entry, the string as it was.
C22_SplitsAtLines ==
    (/\ streamed.done /\ resp.fence = "none" /\ resp.kind \in {"object", "mapping", "stream"}
     /\ Len(resp.docs) = 1 /\ HoldsDashes(resp.docs[1]))
        => /\ streamed.err = ""
           /\ streamed.out = (GetName(resp.docs[1]) :> resp.docs[1])

\* C23: the empty segments of a stream, before a first separator, between
\* two separator lines in a row and after a last separator, give neither an
\* entry nor a failure: a stream of well-formed documents, each after a
\* separator line, resolves to the entries of those documents only.
C23_EmptySegments ==
    parsed.done /\ ReplyText \in GappedStreams \cup {ReplyStream(RunDocs)}
        => /\ parsed.err = ""
           /\ parsed.out = KeyedByName(RunDocs)

(***************************************************************************)
(* The stages of an invocation                                             *)
(***************************************************************************)
\* The invocation has ended without the resolved set in its response.
RunFailed == pc = "done" /\ (~parsed.done \/ parsed.err # "")

\* C24: an invocation enters each of its stages at most once and in the
\* order input, credentials, the two serializations, the prompt, the call
\* of the model, the resolver; the model is called only when the input,
\* the credential and the serializations were good; every failure ends the
\* invocation with exactly one fatal result and a nil error.
C24_OnePass ==
    /\ \E n \in 0..7 :
          steps = SubSeq(<<"input", "credentials", "composite", "composed", "prompt", "call",
                           "resolve">>, 1, n)
    /\ Len(steps) >= 6 => req.input = "prompt" /\ req.creds = "data" /\ req.observed = "ok"
    /\ pc = "calling" => Len(steps) = 6 /\ rsp.results = <<>>
    /\ pc = "done" => rsp.err = "nil"
    /\ RunFailed => Len(rsp.results) = 1 /\ rsp.results[1].severity = "FATAL"
    /\ pc = "done" /\ ~RunFailed => rsp.results = <<>>

\* An invocation went through every stage and failed in the last.
C24_Witness ==
    /\ pc = "done"
    /\ Len(steps) = 7
    /\ parsed.err # ""
    /\ Len(rsp.results) = 1

Prefixed(env) == SelectSeq(env, LAMBDA e : e # <<>> /\ e[1] = "MCP_SERVER_TOOL_")

\* C26: every Config in the map FromEnvVars returns is valid, with a base
\* URL and the transport sse or http-stream, so a server whose merged
\* Config is not is absent; and the entries without the prefix add nothing:
\* the map is the one the entries with the prefix give.
C26_OnlyValid ==
    fromEnv.done /\ ~fromEnv.panicked
        => /\ \A k \in DOMAIN fromEnv.cfgs :
                /\ fromEnv.cfgs[k].BaseURL # <<>>
                /\ fromEnv.cfgs[k].Transport \in {"sse", "http-stream"}
           /\ fromEnv = FromEnvVars(Prefixed(environ))

\* A map with the server a has been returned from an environment that has
\* an entry without the prefix.
C26_Witness ==
    /\ fromEnv.done /\ ~fromEnv.panicked
    /\ DOMAIN fromEnv.cfgs = {<<"a">>}
    /\ \E i \in DOMAIN environ : environ[i][1] # "MCP_SERVER_TOOL_"

\* The transports and base URLs the entries of env set for the server k,
\* in the order of env.
RECURSIVE SetFor(_, _, _)
SetFor(env, k, field) ==
    IF env = <<>> THEN <<>>
    ELSE IF parse(Head(env)).key = k /\ parse(Head(env)).cfg[field] # NoConfig[field]
    THEN <<parse(Head(env)).cfg[field]>> \o SetFor(Tail(env), k, field)
    ELSE SetFor(Tail(env), k, field)

\* C27: merge keeps a field that is set: the Config of a server holds, for
\* the transport and for the base URL, the value of the first entry of the
\* environment that sets it, and later entries for the same field of the
\* same server are ignored.
C27_FirstWins ==
    fromEnv.done /\ ~fromEnv.panicked
        => \A k \in DOMAIN fromEnv.cfgs :
              /\ fromEnv.cfgs[k].Transport = Head(SetFor(Prefixed(environ), k, "Transport"))
              /\ fromEnv.cfgs[k].BaseURL = Head(SetFor(Prefixed(environ), k, "BaseURL"))

\* Two entries set the transport of the server a, http-stream first.
C27_Witness ==
    /\ fromEnv.done /\ ~fromEnv.panicked
    /\ Len(SetFor(Prefixed(environ), <<"a">>, "Transport")) = 2
    /\ <<"a">> \in DOMAIN fromEnv.cfgs
    /\ fromEnv.cfgs[<<"a">>].Transport = "http-stream"

\* C29: FromEnvVars returns for every environment: parse gives a key and a
\* Config for every entry with the prefix, also without an underscore after
\* the prefix, with the type transport or baseurl and no equals sign, or
\* with underscores in the value; no index is out of range.
C29_NoPanic == fromEnv.done => ~fromEnv.panicked

(***************************************************************************)
(* The tools of the servers                                                *)
(***************************************************************************)
Elements(q) == {q[i] : i \in DOMAIN q}

\* The servers for which every step succeeded.
Working == {k \in DOMAIN servers : servers[k].fails = "none"}

OneTextBlock == Len(call.content) = 1 /\ call.content[1].type = "text"

\* C30: the resolver runs only on a message of exactly one block of type
\* text; a message with no block, with several, or with one block of
\* another type ends the invocation with a fatal result, nothing resolved
\* and the desired state as in the request.
C30_OnlyOneTextBlock ==
    /\ parsed.done => call.status = "ok" /\ OneTextBlock
    /\ call.status = "ok" /\ ~OneTextBlock
         => /\ pc = "done"
            /\ ~parsed.done
            /\ Len(rsp.results) = 1 /\ rsp.results[1].severity = "FATAL"
            /\ rsp.desired = req.desired

\* A message of two text blocks and a request with desired resources.
C30_Witness ==
    /\ pc = "done"
    /\ call.status = "ok"
    /\ Len(call.content) = 2
    /\ ~parsed.done
    /\ req.desired.resources # NoResources
====
